---- MODULE Spec2Model ----
(***************************************************************************)
(* Model of AsyncRuleValidator (src/src/core/rules.js): the two            *)
(* orchestrators validate and validateOneByOne, the rule invoker           *)
(* _executeValidationRuleAsync, the aggregator                             *)
(* _concatAllValidationResultErrors / addAllToArray and ValidationResult.  *)
(*                                                                         *)
(* JavaScript values are records [t, s, a]: t is the type tag, s the       *)
(* string payload (a string's text, an Error's message), a the elements of *)
(* an array.  Promises are records [st, v].  JavaScript runs a synchronous *)
(* stretch of code to completion: no promise reaction runs while validate  *)
(* is still mapping over its rules.                                        *)
(***************************************************************************)
EXTENDS Naturals, Sequences, FiniteSets, TLC

VARIABLES
    rules,     \* the argument of validate / validateOneByOne: a list of rule identifiers
    mode,      \* the orchestrator method that was called
    pc,        \* position of the orchestrator call
    idx,       \* the list position the orchestrator is at (1-based)
    inv,       \* inv[i]: the promise of the invocation of rules[i]
    loaded,    \* list positions handed to this._requireFunction, in call order
    called,    \* list positions whose validation function was called, in call order
    order,     \* list positions of the invocations, in the order they settled
    ret,       \* what the orchestrator call gave its caller
    arg,       \* the argument as the caller passed it: a list of rules or a bare rule
    calls,     \* number of orchestrator calls made on the validator so far
    first,     \* the first call on the validator, once a second one is made
    evIn,      \* createEventInfo: the event and environmentData passed
    evOut,     \* createEventInfo: the event info returned
    req,       \* AxiosWrapper platform request: the event and config passed
    sent       \* AxiosWrapper platform request: the config handed to the HTTP client

callVars == <<arg, calls, first>>

envVars == <<evIn, evOut, req, sent>>

vars == <<rules, mode, pc, idx, inv, loaded, called, order, ret, callVars, envVars>>

(* Longest rule list explored. *)
MaxRules == 3

----------------------------------------------------------------------------
(* JavaScript values *)

Undefined == [t |-> "undefined", s |-> "", a |-> <<>>]

Str(x) == [t |-> "string", s |-> x, a |-> <<>>]

Arr(xs) == [t |-> "array", s |-> "", a |-> xs]

ErrorObj(m) == [t |-> "error", s |-> m, a |-> <<>>]

(* A number, s its decimal text *)
Num(x) == [t |-> "number", s |-> x, a |-> <<>>]

(* A plain object *)
Obj == [t |-> "object", s |-> "", a |-> <<>>]

(* true and false *)
Bool(b) == [t |-> "boolean", s |-> IF b THEN "true" ELSE "false", a |-> <<>>]

(* if (value): undefined and '' are falsy, every array and object is truthy *)
Truthy(v) ==
    CASE v.t = "undefined" -> FALSE
      [] v.t = "string" -> v.s # ""
      [] v.t = "number" -> v.s # "0"
      [] v.t = "boolean" -> v.s = "true"
      [] OTHER -> TRUE

IsArray(v) == v.t = "array"

(* `${v}`: the string a template literal makes of a value *)
RECURSIVE JoinComma(_)
ToStr(v) ==
    CASE v.t = "string" -> v.s
      [] v.t = "error" -> "Error: " \o v.s
      [] v.t = "array" -> JoinComma(v.a)
      [] v.t = "number" -> v.s
      [] v.t = "boolean" -> v.s
      [] v.t = "object" -> "[object Object]"
      [] OTHER -> "undefined"

JoinComma(xs) ==
    IF xs = <<>> THEN ""
    ELSE IF Len(xs) = 1 THEN (IF xs[1].t = "undefined" THEN "" ELSE ToStr(xs[1]))
    ELSE (IF xs[1].t = "undefined" THEN "" ELSE ToStr(xs[1])) \o "," \o JoinComma(Tail(xs))

----------------------------------------------------------------------------
(* The rules under validation.  A rule is named by an identifier; the      *)
(* loader installed with withRequireRulefunction maps it to what is found  *)
(* there.  callable: typeof loaded === 'function'.  how: what a call of    *)
(* the function does: "return" a value, "throw" a value, or return a       *)
(* "promise" that later will "fulfil" with val, "reject" with val, or      *)
(* "never" settle.                                                         *)

RuleIds ==
    {"rf01", "rf02", "rf03", "rf04", "rf05", "rf06", "rf07", "rf08", "rf09", "rf10", "rf11"}

Rule(c, h, o, v) == [callable |-> c, how |-> h, outcome |-> o, val |-> v]

requireFunction(rule) ==
    CASE rule = "rf01" -> Rule(TRUE, "return", "fulfil", Undefined)
      [] rule = "rf02" -> Rule(TRUE, "return", "fulfil", Str("A"))
      [] rule = "rf03" -> Rule(TRUE, "return", "fulfil", Arr(<<Str("B"), Str("C")>>))
      [] rule = "rf04" -> Rule(TRUE, "promise", "fulfil", Str("D"))
      [] rule = "rf05" -> Rule(TRUE, "promise", "fulfil", Arr(<<Str("E"), Str("F")>>))
      [] rule = "rf06" -> Rule(TRUE, "promise", "fulfil", Undefined)
      [] rule = "rf07" -> Rule(TRUE, "throw", "reject", ErrorObj("boom"))
      [] rule = "rf08" -> Rule(TRUE, "promise", "reject", Str("down"))
      [] rule = "rf09" -> Rule(TRUE, "promise", "never", Undefined)
      [] rule = "rf11" -> Rule(TRUE, "return", "fulfil", Arr(<<Str(""), Str("G")>>))
      [] rule = "rf12" -> Rule(TRUE, "promise", "fulfil", Str("A"))
      [] rule = "rf13" -> Rule(TRUE, "promise", "fulfil", Arr(<<Str("B"), Str("C")>>))
      [] rule = "rf15" -> Rule(TRUE, "return", "fulfil", Arr(<<Arr(<<Str("H")>>), Str("I")>>))
      [] rule = "rf16" -> Rule(TRUE, "return", "fulfil", Num("42"))
      [] rule = "rf17" -> Rule(TRUE, "promise", "fulfil", Obj)
      [] OTHER -> Rule(FALSE, "return", "fulfil", Undefined)

----------------------------------------------------------------------------
(* Promises *)

NoPromise == [st |-> "none", v |-> Undefined]

Pending == [st |-> "pending", v |-> Undefined]

Fulfilled(v) == [st |-> "fulfilled", v |-> v]

Rejected(v) == [st |-> "rejected", v |-> v]

Settled(p) == p.st \in {"fulfilled", "rejected"}

(* Faulty variant of toPromise: Promise.resolve() without the result *)
toPromiseLosingResult(v) == Fulfilled(Undefined)

(* toPromise(result): a value that is no promise becomes a fulfilled one *)
toPromise(v) == Fulfilled(v)

----------------------------------------------------------------------------
(* Result aggregator and ValidationResult *)

(* Faulty variant of addAllToArray: a single value is pushed as its string *)
addAllToArrayCoercing(array, value) ==
    IF IsArray(value) THEN array \o value.a
    ELSE IF Truthy(value) THEN Append(array, Str(ToStr(value)))
    ELSE array

(* addAllToArray(array, value): the array after the call *)
addAllToArray(array, value) ==
    IF IsArray(value) THEN array \o value.a
    ELSE IF Truthy(value) THEN Append(array, value)
    ELSE array

RECURSIVE forEachAddAll(_, _)
(* xs.forEach(resultError => addAllToArray(array, resultError)) *)
forEachAddAll(array, xs) ==
    IF xs = <<>> THEN array
    ELSE forEachAddAll(addAllToArray(array, Head(xs)), Tail(xs))

(* new ValidationResult(validationErrors) *)
ValidationResult(validationErrors) == [validationErrors |-> validationErrors]

(* Faulty variant of hasErrors: never reports an error *)
hasErrorsNever(vr) == FALSE

hasErrors(vr) == Len(vr.validationErrors) > 0

RECURSIVE join(_, _)
(* xs.join(sep): undefined elements give the empty string *)
join(xs, sep) ==
    IF xs = <<>> THEN ""
    ELSE (IF Head(xs).t = "undefined" THEN "" ELSE ToStr(Head(xs)))
             \o (IF Len(xs) = 1 THEN "" ELSE sep \o join(Tail(xs), sep))

(* ValidationResult.getErrors() *)
getErrors(vr) == [errors |-> vr.validationErrors]

(* Faulty variant of getErrorsAsString: join() with its default separator *)
getErrorsAsStringDefaultJoin(vr) == join(vr.validationErrors, ",")

(* ValidationResult.getErrorsAsString() *)
getErrorsAsString(vr) == join(vr.validationErrors, "\n")

(* Faulty variant of concatAllValidationResultErrors: an empty list is not *)
(* taken for a list and is pushed as a message                             *)
concatAllValidationResultErrorsEmptyAsValue(all) ==
    IF IsArray(all) /\ all.a # <<>> THEN ValidationResult(forEachAddAll(<<>>, all.a))
    ELSE IF Truthy(all) THEN ValidationResult(<<all>>)
    ELSE ValidationResult(<<>>)

(* _concatAllValidationResultErrors(allValidationRuleResultErrors) *)
concatAllValidationResultErrors(all) ==
    IF IsArray(all) THEN ValidationResult(forEachAddAll(<<>>, all.a))
    ELSE IF Truthy(all) THEN ValidationResult(<<all>>)
    ELSE ValidationResult(<<>>)

----------------------------------------------------------------------------
(* Rule invoker *)

(* The rejection reason built at rules.js lines 171 and 174 *)
FailureMessage(rule, error) == Str("Falha ao executar regra " \o rule \o ": " \o ToStr(error))

(* The Error thrown at rules.js line 166 *)
NotCallableError(rule) == ErrorObj("Could not execute validation rule \"" \o rule \o "\".")

(* Faulty variant of executeValidationRuleAsync: every failure of the rule is *)
(* caught and becomes the message of a fulfilled promise                   *)
executeValidationRuleAsyncCatching(rule) ==
    LET validationFunction == requireFunction(rule) IN
    [threw |-> FALSE, error |-> Undefined,
     promise |-> IF ~validationFunction.callable
                 THEN Fulfilled(Str(NotCallableError(rule).s))
                 ELSE CASE validationFunction.how = "throw" ->
                               Fulfilled(FailureMessage(rule, validationFunction.val))
                        [] validationFunction.how = "return" ->
                               toPromise(validationFunction.val)
                        [] OTHER -> Pending]

(* Faulty variant of executeValidationRuleAsync: no try/catch around the call of *)
(* the validation function                                                 *)
executeValidationRuleAsyncNoTry(rule) ==
    LET validationFunction == requireFunction(rule) IN
    IF ~validationFunction.callable
    THEN [threw |-> TRUE, error |-> NotCallableError(rule), promise |-> NoPromise]
    ELSE IF validationFunction.how = "throw"
    THEN [threw |-> TRUE, error |-> validationFunction.val, promise |-> NoPromise]
    ELSE [threw |-> FALSE, error |-> Undefined,
          promise |-> IF validationFunction.how = "return"
                      THEN toPromise(validationFunction.val)
                      ELSE Pending]

(* Faulty variant of executeValidationRuleAsync: a rule that is not callable gives *)
(* a rejected promise instead of an exception                              *)
executeValidationRuleAsyncRejecting(rule) ==
    LET validationFunction == requireFunction(rule) IN
    [threw |-> FALSE, error |-> Undefined,
     promise |-> IF ~validationFunction.callable
                 THEN Rejected(NotCallableError(rule))
                 ELSE CASE validationFunction.how = "throw" ->
                               Rejected(FailureMessage(rule, validationFunction.val))
                        [] validationFunction.how = "return" ->
                               toPromise(validationFunction.val)
                        [] OTHER -> Pending]

(* _executeValidationRuleAsync(rule): whether the call threw (and what),   *)
(* whether the validation function was called, and the promise returned.   *)
executeValidationRuleAsync(rule) ==
    LET validationFunction == requireFunction(rule) IN
    IF ~validationFunction.callable
    THEN [threw |-> TRUE, error |-> NotCallableError(rule), promise |-> NoPromise]
    ELSE [threw |-> FALSE, error |-> Undefined,
          promise |-> CASE validationFunction.how = "throw" ->
                               Rejected(FailureMessage(rule, validationFunction.val))
                        [] validationFunction.how = "return" ->
                               toPromise(validationFunction.val)
                        [] OTHER -> Pending]

(* What the pending promise of a call of rule becomes when the promise the *)
(* validation function returned settles (the .catch of line 171).          *)
settlement(rule) ==
    LET validationFunction == requireFunction(rule) IN
    IF validationFunction.outcome = "reject"
    THEN Rejected(FailureMessage(rule, validationFunction.val))
    ELSE Fulfilled(validationFunction.val)

----------------------------------------------------------------------------
(* The orchestrator's answer to its caller *)

NoReturn == [st |-> "none", result |-> ValidationResult(<<>>), reason |-> Undefined]

PendingReturn == [st |-> "pending", result |-> ValidationResult(<<>>), reason |-> Undefined]

Resolved(vr) == [st |-> "resolved", result |-> vr, reason |-> Undefined]

RejectedWith(reason) == [st |-> "rejected", result |-> ValidationResult(<<>>), reason |-> reason]

Thrown(error) == [st |-> "thrown", result |-> ValidationResult(<<>>), reason |-> error]

N == Len(rules)

RuleLists == UNION {[1..n -> RuleIds] : n \in 0..MaxRules}

(* A list of rule names as the caller passes it *)
ListArg(R) == Arr([i \in 1..Len(R) |-> Str(R[i])])

(* Faulty variant of RulesArray: the bare rule is not wrapped *)
RulesArrayNoWrap(a) == [i \in 1..Len(a.a) |-> a.a[i].s]

(* _executeValidationRulesAsync: a bare rule is made a one-element list *)
RulesArray(a) ==
    LET list == IF ~IsArray(a) THEN <<a>> ELSE a.a IN
    [i \in 1..Len(list) |-> list[i].s]

NoCall == [mode |-> "none", arg |-> Undefined, ret |-> NoReturn]

----------------------------------------------------------------------------
(* lambda-event.js: createEventInfo.  An object that may be missing is a   *)
(* record with a field defined; a property that is missing is Undefined.   *)

(* The headers of an event, token its 'X-Senior-Token' entry *)
Headers(d, token) == [defined |-> d, token |-> token]

(* An environment's data *)
EnvironmentData(d, url, defaultToken, bearerToken) ==
    [defined |-> d, basePlatformUrl |-> url, defaultToken |-> defaultToken,
     bearerToken |-> bearerToken]

NoEnvironmentData == EnvironmentData(FALSE, Undefined, Undefined, Undefined)

(* {} *)
EmptyEnvironmentData == EnvironmentData(TRUE, Undefined, Undefined, Undefined)

(* const environments = Object.freeze({...}): environments[name] *)
environments(name) ==
    CASE name = "production" ->
             EnvironmentData(TRUE,
                 Str("https://platform.senior.com.br/t/senior.com.br/bridge/1.0/rest"),
                 Undefined, Undefined)
      [] name = "homologx" ->
             EnvironmentData(TRUE,
                 Str("https://platform-homologx.senior.com.br/t/senior.com.br/bridge/1.0/rest"),
                 Undefined, Undefined)
      [] name = "leaf" ->
             EnvironmentData(TRUE,
                 Str("https://leaf.interno.senior.com.br:8243/t/senior.com.br/bridge/1.0/rest"),
                 Undefined, Undefined)
      [] name = "development" ->
             EnvironmentData(TRUE, Str("https://demo4616619.mockable.io"), Undefined,
                 Str("Bearer 15c2a9eca2e0f3faac36de609c7d05ca"))
      [] OTHER -> NoEnvironmentData

(* a || b *)
Or(a, b) == IF Truthy(a) THEN a ELSE b

getEnvironment(event) ==
    Or(event.environment,
       IF Truthy(event.development) THEN Str("development") ELSE Str("production"))

(* Faulty variant of getToken: the request header is looked at in          *)
(* development too                                                         *)
getTokenHeaderFirst(event, isDevelopment, defaultToken) ==
    LET token == IF event.headers.defined THEN event.headers.token ELSE Undefined IN
    Or(token, Or(defaultToken,
                 IF isDevelopment THEN environments("development").bearerToken ELSE Str("")))

getToken(event, isDevelopment, defaultToken) ==
    IF isDevelopment
    THEN Or(defaultToken, environments("development").bearerToken)
    ELSE LET token == IF event.headers.defined THEN event.headers.token ELSE Undefined IN
         Or(token, Or(defaultToken, Str("")))

createEventInfo(event, environmentData) ==
    LET environment == getEnvironment(event)
        development == environment = Str("development")
        data == IF environmentData.defined THEN environmentData
                ELSE IF environments(environment.s).defined THEN environments(environment.s)
                ELSE EmptyEnvironmentData
    IN  [environment |-> environment,
         development |-> development,
         production |-> ~development,
         platformUrl |-> data.basePlatformUrl,
         platformToken |-> getToken(event, development, data.defaultToken),
         originalEvent |-> event]

Event(environment, development, headers) ==
    [environment |-> environment, development |-> development, headers |-> headers]

NoEvent == Event(Undefined, Undefined, Headers(FALSE, Undefined))

NoEventIn == [event |-> NoEvent, environmentData |-> NoEnvironmentData]

NoEventOut == [st |-> "none", info |-> createEventInfo(NoEvent, NoEnvironmentData)]

----------------------------------------------------------------------------
(* AxiosWrapper: the platform requests and _configToken.  A key that is    *)
(* missing from config or from its headers is Undefined.                   *)

(* config.headers, with the keys Authorization and Accept *)
ConfigHeaders(d, authorization, accept) ==
    [defined |-> d, Authorization |-> authorization, Accept |-> accept]

NoConfigHeaders == ConfigHeaders(FALSE, Undefined, Undefined)

(* The request config, with the keys timeout and headers *)
Config(d, timeout, headers) == [defined |-> d, timeout |-> timeout, headers |-> headers]

NoConfig == Config(FALSE, Undefined, NoConfigHeaders)

(* Faulty variant of configToken: the token replaces the caller's header *)
configTokenOverwriting(event, config) ==
    LET c == IF config.defined THEN config ELSE Config(TRUE, Undefined, NoConfigHeaders)
        h == IF c.headers.defined THEN c.headers
             ELSE ConfigHeaders(TRUE, Undefined, Undefined)
    IN  [c EXCEPT !.headers =
            IF Truthy(event.platformToken)
            THEN [h EXCEPT !.Authorization = event.platformToken]
            ELSE h]

(* _configToken(event, config) *)
configToken(event, config) ==
    LET c == IF config.defined THEN config ELSE Config(TRUE, Undefined, NoConfigHeaders)
        h == IF c.headers.defined THEN c.headers
             ELSE ConfigHeaders(TRUE, Undefined, Undefined)
    IN  [c EXCEPT !.headers =
            IF ~Truthy(h.Authorization) /\ Truthy(event.platformToken)
            THEN [h EXCEPT !.Authorization = event.platformToken]
            ELSE h]

(* `${event.platformUrl}${uri}` *)
platformUrlOf(event, uri) == ToStr(event.platformUrl) \o ToStr(uri)

Request(event, uri, data, config) ==
    [event |-> event, uri |-> uri, data |-> data, config |-> config]

NoRequest ==
    Request([platformUrl |-> Undefined, platformToken |-> Undefined], Undefined,
            Undefined, NoConfig)

(* What the HTTP client was called with *)
Sent(st, method, url, data, config) ==
    [st |-> st, method |-> method, url |-> url, data |-> data, config |-> config]

NothingSent == Sent("none", "", "", Undefined, NoConfig)

(* Nothing was asked of createEventInfo or of the AxiosWrapper *)
EnvIdle ==
    /\ evIn = NoEventIn
    /\ evOut = NoEventOut
    /\ req = NoRequest
    /\ sent = NothingSent

(* An orchestrator call is about to be made with argument arg *)
CallStart ==
    /\ rules = RulesArray(arg)
    /\ mode = "none"
    /\ pc = "idle"
    /\ idx = 1
    /\ inv = [i \in 1..Len(RulesArray(arg)) |-> NoPromise]
    /\ loaded = <<>>
    /\ called = <<>>
    /\ order = <<>>
    /\ ret = NoReturn

Init ==
    /\ arg \in {ListArg(R) : R \in RuleLists}
    /\ CallStart
    /\ calls = 1
    /\ first = NoCall
    /\ EnvIdle

(* validate(rules) is entered: rules.map starts at the first rule *)
Validate ==
    /\ pc = "idle"
    /\ pc' = "map"
    /\ mode' = "validate"
    /\ UNCHANGED <<rules, idx, inv, loaded, called, order, ret>>
    /\ UNCHANGED <<callVars, envVars>>

(* One callback of rules.map in _executeValidationRulesAsync: rule idx is  *)
(* loaded and called.  An exception leaves map and validate at once.       *)
MapStep ==
    /\ pc = "map"
    /\ idx <= N
    /\ LET r == executeValidationRuleAsync(rules[idx]) IN
       /\ loaded' = Append(loaded, idx)
       /\ IF r.threw
          THEN /\ pc' = "done"
               /\ ret' = Thrown(r.error)
               /\ UNCHANGED <<idx, inv, called, order>>
          ELSE /\ inv' = [inv EXCEPT ![idx] = r.promise]
               /\ called' = Append(called, idx)
               /\ order' = IF Settled(r.promise) THEN Append(order, idx) ELSE order
               /\ idx' = idx + 1
               /\ UNCHANGED <<pc, ret>>
    /\ UNCHANGED <<rules, mode>>
    /\ UNCHANGED <<callVars, envVars>>

(* Promise.all(...).then(...) is built from the mapped promises and        *)
(* validate returns it.                                                    *)
JoinAll ==
    /\ pc = "map"
    /\ idx > N
    /\ pc' = "all"
    /\ ret' = PendingReturn
    /\ UNCHANGED <<rules, mode, idx, inv, loaded, called, order>>
    /\ UNCHANGED <<callVars, envVars>>

(* Faulty variant of Settle: an invocation still pending when the orchestrator is *)
(* done is cancelled                                                       *)
SettleCancelledWhenDone(i) ==
    /\ pc \in {"all", "await"}
    /\ inv[i].st = "pending"
    /\ requireFunction(rules[i]).outcome # "never"
    /\ inv' = [inv EXCEPT ![i] = settlement(rules[i])]
    /\ order' = Append(order, i)
    /\ UNCHANGED <<rules, mode, pc, idx, loaded, called, ret>>
    /\ UNCHANGED <<callVars, envVars>>

(* Faulty variant of Settle: a timeout fulfils a promise that would never settle *)
SettleWithTimeout(i) ==
    /\ pc \in {"all", "await", "done"}
    /\ inv[i].st = "pending"
    /\ inv' = [inv EXCEPT ![i] = settlement(rules[i])]
    /\ order' = Append(order, i)
    /\ UNCHANGED <<rules, mode, pc, idx, loaded, called, ret>>
    /\ UNCHANGED <<callVars, envVars>>

(* The promise a validation function returned settles. *)
Settle(i) ==
    /\ pc \in {"all", "await", "done"}
    /\ inv[i].st = "pending"
    /\ requireFunction(rules[i]).outcome # "never"
    /\ inv' = [inv EXCEPT ![i] = settlement(rules[i])]
    /\ order' = Append(order, i)
    /\ UNCHANGED <<rules, mode, pc, idx, loaded, called, ret>>
    /\ UNCHANGED <<callVars, envVars>>

(* Faulty variant of AllValues: the values in the order the promises settled *)
AllValuesByArrival == Arr([k \in 1..N |-> inv[order[k]].v])

(* The values of the mapped promises, by list position *)
AllValues == Arr([i \in 1..N |-> inv[i].v])

(* The invocation that was first to reject *)
FirstRejected ==
    LET rej == {k \in 1..Len(order) : inv[order[k]].st = "rejected"} IN
    order[CHOOSE k \in rej : \A m \in rej : k <= m]

(* Faulty variant of AllResolve: resolves as soon as no promise has rejected and *)
(* one has fulfilled                                                       *)
AllResolveEarly ==
    /\ pc = "all"
    /\ \A i \in 1..N : inv[i].st # "rejected"
    /\ \E i \in 1..N : inv[i].st = "fulfilled"
    /\ ret' = Resolved(concatAllValidationResultErrors(AllValues))
    /\ pc' = "done"
    /\ UNCHANGED <<rules, mode, idx, inv, loaded, called, order>>
    /\ UNCHANGED <<callVars, envVars>>

(* Promise.all fulfils once every promise has: .then aggregates the values *)
AllResolve ==
    /\ pc = "all"
    /\ \A i \in 1..N : inv[i].st = "fulfilled"
    /\ ret' = Resolved(concatAllValidationResultErrors(AllValues))
    /\ pc' = "done"
    /\ UNCHANGED <<rules, mode, idx, inv, loaded, called, order>>
    /\ UNCHANGED <<callVars, envVars>>

(* Promise.all rejects with the reason of the first promise to reject *)
AllReject ==
    /\ pc = "all"
    /\ \E i \in 1..N : inv[i].st = "rejected"
    /\ ret' = RejectedWith(inv[FirstRejected].v)
    /\ pc' = "done"
    /\ UNCHANGED <<rules, mode, idx, inv, loaded, called, order>>
    /\ UNCHANGED <<callVars, envVars>>

(* validateOneByOne(rules) is entered: an async function, its promise is   *)
(* pending from the start.  Its for...of takes a list; what it makes of a  *)
(* bare rule is not modelled.                                              *)
ValidateOneByOne ==
    /\ pc = "idle"
    /\ IsArray(arg)
    /\ pc' = "loop"
    /\ mode' = "validateOneByOne"
    /\ ret' = PendingReturn
    /\ UNCHANGED <<rules, idx, inv, loaded, called, order>>
    /\ UNCHANGED <<callVars, envVars>>

(* The head of the for loop: the list is exhausted, or rule idx is loaded  *)
(* and called and the function awaits its promise.                         *)
OneByOneStep ==
    /\ pc = "loop"
    /\ IF idx > N
       THEN /\ ret' = Resolved(ValidationResult(<<>>))
            /\ pc' = "done"
            /\ UNCHANGED <<idx, inv, loaded, called, order>>
       ELSE LET r == executeValidationRuleAsync(rules[idx]) IN
            /\ loaded' = Append(loaded, idx)
            /\ IF r.threw
               THEN /\ pc' = "done"
                    /\ ret' = RejectedWith(r.error)
                    /\ UNCHANGED <<idx, inv, called, order>>
               ELSE /\ inv' = [inv EXCEPT ![idx] = r.promise]
                    /\ called' = Append(called, idx)
                    /\ order' = IF Settled(r.promise) THEN Append(order, idx) ELSE order
                    /\ pc' = "await"
                    /\ UNCHANGED <<idx, ret>>
    /\ UNCHANGED <<rules, mode>>
    /\ UNCHANGED <<callVars, envVars>>

(* Faulty variant of OneByOneResume: the loop goes on without awaiting a promise *)
(* that is still pending                                                   *)
OneByOneResumeNoAwait ==
    /\ pc = "await"
    /\ IF inv[idx].st = "rejected"
       THEN /\ ret' = RejectedWith(inv[idx].v)
            /\ pc' = "done"
            /\ UNCHANGED idx
       ELSE LET validationResult == concatAllValidationResultErrors(inv[idx].v) IN
            IF hasErrors(validationResult)
            THEN /\ ret' = Resolved(validationResult)
                 /\ pc' = "done"
                 /\ UNCHANGED idx
            ELSE /\ idx' = idx + 1
                 /\ pc' = "loop"
                 /\ UNCHANGED ret
    /\ UNCHANGED <<rules, mode, inv, loaded, called, order>>
    /\ UNCHANGED <<callVars, envVars>>

(* The await of rule idx ends: its outcome is aggregated on its own. *)
OneByOneResume ==
    /\ pc = "await"
    /\ Settled(inv[idx])
    /\ IF inv[idx].st = "rejected"
       THEN /\ ret' = RejectedWith(inv[idx].v)
            /\ pc' = "done"
            /\ UNCHANGED idx
       ELSE LET validationResult == concatAllValidationResultErrors(inv[idx].v) IN
            IF hasErrors(validationResult)
            THEN /\ ret' = Resolved(validationResult)
                 /\ pc' = "done"
                 /\ UNCHANGED idx
            ELSE /\ idx' = idx + 1
                 /\ pc' = "loop"
                 /\ UNCHANGED ret
    /\ UNCHANGED <<rules, mode, inv, loaded, called, order>>
    /\ UNCHANGED <<callVars, envVars>>

Next ==
    \/ Validate
    \/ MapStep
    \/ JoinAll
    \/ \E i \in 1..N : Settle(i)
    \/ AllResolve
    \/ AllReject
    \/ ValidateOneByOne
    \/ OneByOneStep
    \/ OneByOneResume

Spec == Init /\ [][Next]_vars

----------------------------------------------------------------------------
(* Two calls on one validator.  The second call is made once the first has *)
(* ended, with the same argument or one close to it: a rule replaced by    *)
(* its twin (the same outcome, returned directly instead of through a      *)
(* promise, or the reverse), or a one-rule list replaced by the bare rule. *)

(* Longest rule list explored with two calls. *)
MaxRulesTwice == 2

TwiceIds ==
    {"rf01", "rf02", "rf03", "rf06", "rf08", "rf10", "rf11", "rf12", "rf13", "rf15",
     "rf16", "rf17"}

(* The rule with the same outcome and the other way of returning it *)
Twin(rule) ==
    CASE rule = "rf01" -> "rf06"
      [] rule = "rf06" -> "rf01"
      [] rule = "rf02" -> "rf12"
      [] rule = "rf12" -> "rf02"
      [] rule = "rf03" -> "rf13"
      [] rule = "rf13" -> "rf03"
      [] OTHER -> rule

TwiceArgs ==
    {ListArg(R) : R \in UNION {[1..n -> TwiceIds] : n \in 0..MaxRulesTwice}}
        \cup {Str(r) : r \in TwiceIds}

Related(a) ==
    {a}
        \cup (IF IsArray(a)
              THEN {ListArg([RulesArray(a) EXCEPT ![i] = Twin(@)]) : i \in 1..Len(a.a)}
              ELSE {Arr(<<a>>)})
        \cup (IF IsArray(a) /\ Len(a.a) = 1 THEN {a.a[1]} ELSE {})

InitTwice ==
    /\ arg \in TwiceArgs
    /\ CallStart
    /\ calls = 1
    /\ first = NoCall
    /\ EnvIdle

(* The caller, holding the outcome of the first call, calls the validator  *)
(* again: nothing of the first call but the validator itself is carried    *)
(* over, the locals of validate and validateOneByOne are fresh.            *)
CallAgain ==
    /\ pc = "done"
    /\ calls = 1
    /\ calls' = 2
    /\ first' = [mode |-> mode, arg |-> arg, ret |-> ret]
    /\ \E a \in Related(arg) :
           /\ arg' = a
           /\ rules' = RulesArray(a)
           /\ inv' = [i \in 1..Len(RulesArray(a)) |-> NoPromise]
    /\ mode' = "none"
    /\ pc' = "idle"
    /\ idx' = 1
    /\ loaded' = <<>>
    /\ called' = <<>>
    /\ order' = <<>>
    /\ ret' = NoReturn
    /\ UNCHANGED envVars

NextTwice ==
    \/ Next
    \/ CallAgain

SpecTwice == InitTwice /\ [][NextTwice]_vars

----------------------------------------------------------------------------
(* Vocabulary of the properties, stated on the rule catalogue *)

(* The rule resolves to a callable whose call settles successfully *)
Successful(rule) ==
    LET f == requireFunction(rule) IN
    f.callable /\ f.how # "throw" /\ f.outcome = "fulfil"

(* The messages of one rule outcome: a list gives its elements in order,   *)
(* a single non-empty message itself, an empty outcome nothing.            *)
Messages(v) ==
    IF v.t = "array" THEN v.a
    ELSE IF v = Undefined \/ v = Str("") THEN <<>>
    ELSE <<v>>

IsMessage(m) == m # Undefined /\ m # Str("")

(* The messages of an outcome that say something *)
NonEmptyMessages(v) == SelectSeq(Messages(v), IsMessage)

RECURSIVE ConcatInListOrder(_)
ConcatInListOrder(R) ==
    IF R = <<>> THEN <<>>
    ELSE Messages(requireFunction(Head(R)).val) \o ConcatInListOrder(Tail(R))

(* The rule settles successfully with at least one error message *)
YieldsError(rule) == Successful(rule) /\ NonEmptyMessages(requireFunction(rule).val) # <<>>

(* The rule settles successfully with no error message *)
Passes(rule) == Successful(rule) /\ NonEmptyMessages(requireFunction(rule).val) = <<>>

FirstIn(S) == CHOOSE i \in S : \A j \in S : i <= j

----------------------------------------------------------------------------
(* C1: when every rule of the list settles successfully, validate never    *)
(* rejects or throws, and the ValidationResult it resolves to holds        *)
(* exactly the messages of the rules concatenated in list order, whatever  *)
(* the order in which the invocations settled.                             *)
C1_ValidateAggregatesInRuleOrder ==
    (mode = "validate" /\ \A i \in 1..N : Successful(rules[i])) =>
        /\ ret.st \notin {"rejected", "thrown"}
        /\ ret.st = "resolved" =>
               ret.result.validationErrors = ConcatInListOrder(rules)

(* validate resolved with messages of several rules although a later rule  *)
(* settled before an earlier one                                           *)
C1_Witness ==
    /\ mode = "validate"
    /\ ret.st = "resolved"
    /\ \A i \in 1..N : Successful(rules[i])
    /\ \E k \in 1..N : k + 1 <= N /\ order[k] > order[k + 1]
                       /\ YieldsError(rules[order[k]]) /\ YieldsError(rules[order[k + 1]])
    /\ Len(ret.result.validationErrors) >= 2

(* C2: validateOneByOne invokes no rule after the first one that yields an *)
(* error; when it resolves, the result holds the messages of that rule     *)
(* only, and is empty when no rule yields an error.                        *)
C2_OneByOneFirstFailingRuleOnly ==
    mode = "validateOneByOne" =>
        /\ \A k \in 1..Len(called) :
               called[k] = k /\ \A j \in 1..(k - 1) : Passes(rules[j])
        /\ ret.st = "resolved" =>
               LET failing == {i \in 1..N : YieldsError(rules[i])} IN
               IF failing = {}
               THEN ret.result.validationErrors = <<>> /\ Len(called) = N
               ELSE /\ ret.result.validationErrors =
                           NonEmptyMessages(requireFunction(rules[FirstIn(failing)]).val)
                    /\ Len(called) = FirstIn(failing)

(* validateOneByOne stopped at a rule with errors while a later rule, that *)
(* would have yielded errors too, was never invoked                        *)
C2_Witness ==
    /\ mode = "validateOneByOne"
    /\ ret.st = "resolved"
    /\ Len(called) < N
    /\ Len(called) >= 2
    /\ hasErrors(ret.result)
    /\ YieldsError(rules[Len(called) + 1])

(* The rule resolves to a callable that throws when called *)
Throws(rule) == requireFunction(rule).callable /\ requireFunction(rule).how = "throw"

(* The rule resolves to a callable whose promise rejects *)
Rejects(rule) ==
    LET f == requireFunction(rule) IN
    f.callable /\ f.how = "promise" /\ f.outcome = "reject"

(* The loader gives no callable for the rule *)
Unresolvable(rule) == ~requireFunction(rule).callable

(* The rule resolves to a callable whose promise never settles *)
NeverSettles(rule) ==
    LET f == requireFunction(rule) IN
    f.callable /\ f.how = "promise" /\ f.outcome = "never"

(* What the caller is to see of a failed rule of the catalogue *)
FailureText(rule) ==
    CASE rule = "rf07" -> Str("Falha ao executar regra rf07: Error: boom")
      [] rule = "rf08" -> Str("Falha ao executar regra rf08: down")
      [] OTHER -> ErrorObj("Could not execute validation rule \"" \o rule \o "\".")

Range(q) == {q[k] : k \in 1..Len(q)}

(* The positions 1..k in order *)
UpTo(k) == [i \in 1..k |-> i]

----------------------------------------------------------------------------
(* C3 as stated: neither orchestrator ever rejects or throws because a     *)
(* rule failed.                                                            *)
C3_Original_NeverRejectsOrThrows == ret.st \notin {"rejected", "thrown"}

(* C3 as amended: a failure of a rule is not caught.  The call resolves to *)
(* a ValidationResult only when every rule it loaded settled successfully; *)
(* otherwise it rejects, or validate throws, with a value that names a     *)
(* failed rule.                                                            *)
C3_RuleFailurePropagates ==
    /\ ret.st = "resolved" => \A i \in Range(loaded) : Successful(rules[i])
    /\ ret.st = "rejected" =>
           \E i \in Range(loaded) :
               /\ ~Successful(rules[i])
               /\ ret.reason = FailureText(rules[i])
               /\ Unresolvable(rules[i]) => mode = "validateOneByOne"
    /\ ret.st = "thrown" =>
           /\ mode = "validate"
           /\ Unresolvable(rules[loaded[Len(loaded)]])
           /\ ret.reason = FailureText(rules[loaded[Len(loaded)]])
    /\ (pc = "done" /\ \E i \in Range(loaded) : Throws(rules[i]) \/ Unresolvable(rules[i])) =>
           ret.st \in {"rejected", "thrown"}

(* validate rejected with the message of a rule that threw while another   *)
(* rule of the list yielded an error message                               *)
C3_Witness ==
    /\ mode = "validate"
    /\ ret.st = "rejected"
    /\ \E i \in 1..N : Throws(rules[i]) /\ ret.reason = FailureText(rules[i])
    /\ \E j \in 1..N : YieldsError(rules[j]) /\ inv[j].st = "fulfilled"

RECURSIVE ConcatWithFailures(_)
(* The messages in list order, a failed rule giving its failure message *)
ConcatWithFailures(R) ==
    IF R = <<>> THEN <<>>
    ELSE (IF Successful(Head(R))
          THEN Messages(requireFunction(Head(R)).val)
          ELSE <<FailureText(Head(R))>>) \o ConcatWithFailures(Tail(R))

(* C4 as stated: in validate, a rule that throws or rejects leaves a       *)
(* message with its identifier in its slot of the result, and the messages *)
(* of the other rules are present in list order.                           *)
C4_Original_FailureInSlot ==
    (/\ mode = "validate"
     /\ pc = "done"
     /\ \A i \in 1..N : Successful(rules[i]) \/ Throws(rules[i]) \/ Rejects(rules[i])
     /\ \E i \in 1..N : Throws(rules[i]) \/ Rejects(rules[i])) =>
        /\ ret.st = "resolved"
        /\ ret.result.validationErrors = ConcatWithFailures(rules)

(* C4 as amended: in validate over rules that all resolve to callables,    *)
(* a rule that throws or rejects stops no sibling from being invoked, but  *)
(* validate then rejects with the failure message of the first rule to     *)
(* fail (the lowest-placed throwing rule when one throws) and there is no  *)
(* ValidationResult: the siblings' messages are not reported.              *)
C4_FailureRejectsValidate ==
    (/\ mode = "validate"
     /\ \A i \in 1..N : ~Unresolvable(rules[i])
     /\ \E i \in 1..N : Throws(rules[i]) \/ Rejects(rules[i])) =>
        /\ ret.st \in {"none", "pending", "rejected"}
        /\ pc \in {"all", "done"} => called = UpTo(N)
        /\ ret.st = "rejected" =>
               LET throwing == {i \in 1..N : Throws(rules[i])} IN
               IF throwing # {}
               THEN ret.reason = FailureText(rules[FirstIn(throwing)])
               ELSE \E i \in 1..N : /\ Rejects(rules[i])
                                    /\ inv[i].st = "rejected"
                                    /\ ret.reason = FailureText(rules[i])

(* validate rejected because of a throwing rule placed first, with every   *)
(* sibling invoked and one of them fulfilled with an error message         *)
C4_Witness ==
    /\ mode = "validate"
    /\ ret.st = "rejected"
    /\ N >= 2
    /\ Throws(rules[1])
    /\ called = UpTo(N)
    /\ \E j \in 2..N : YieldsError(rules[j]) /\ inv[j].st = "fulfilled"

FirstUnresolvable == FirstIn({i \in 1..N : Unresolvable(rules[i])})

(* C6 as stated: in validate, when the loader gives no callable for a rule *)
(* every other rule is still invoked.                                      *)
C6_Original_OthersStillInvoked ==
    (mode = "validate" /\ pc = "done" /\ \E i \in 1..N : Unresolvable(rules[i])) =>
        \A j \in 1..N : ~Unresolvable(rules[j]) => j \in Range(called)

(* C6 as amended: in validate, when the loader gives no callable for the   *)
(* rule at position i (the first such), validate throws at once an Error   *)
(* that names rule i; the rules before i have been invoked, the rules      *)
(* after i are neither loaded nor invoked, and no promise is returned.     *)
C6_UnresolvableRuleAbortsValidate ==
    (mode = "validate" /\ \E i \in 1..N : Unresolvable(rules[i])) =>
        /\ \A j \in Range(loaded) : j <= FirstUnresolvable
        /\ \A j \in Range(called) : j < FirstUnresolvable
        /\ ret.st \in {"none", "thrown"}
        /\ pc \in {"map", "done"}
        /\ pc = "done" =>
               /\ ret = Thrown(FailureText(rules[FirstUnresolvable]))
               /\ loaded = UpTo(FirstUnresolvable)
               /\ called = UpTo(FirstUnresolvable - 1)

(* validate threw at an unresolvable rule in the middle of the list: the   *)
(* rule before it was invoked, the callable rule after it never was        *)
C6_Witness ==
    /\ mode = "validate"
    /\ ret.st = "thrown"
    /\ N = 3
    /\ FirstUnresolvable = 2
    /\ called = <<1>>
    /\ ~Unresolvable(rules[3])

(* C7 as stated: in validateOneByOne an unresolvable rule ends the call as *)
(* a rule with an error message does: resolved with a ValidationResult     *)
(* that has errors.                                                        *)
C7_Original_UnresolvableEndsLikeError ==
    (/\ mode = "validateOneByOne"
     /\ loaded # <<>>
     /\ Unresolvable(rules[loaded[Len(loaded)]])) =>
        /\ ret.st = "resolved"
        /\ hasErrors(ret.result)

(* C7 as amended: in validateOneByOne an unresolvable rule at position i   *)
(* halts the sequence at i and no rule after i is loaded or invoked, but   *)
(* the call rejects with an Error naming rule i instead of resolving to a  *)
(* ValidationResult with errors.                                           *)
C7_UnresolvableRuleRejectsOneByOne ==
    (/\ mode = "validateOneByOne"
     /\ loaded # <<>>
     /\ Unresolvable(rules[loaded[Len(loaded)]])) =>
        /\ pc = "done"
        /\ ret = RejectedWith(FailureText(rules[Len(loaded)]))
        /\ loaded = UpTo(FirstUnresolvable)
        /\ called = UpTo(FirstUnresolvable - 1)
        /\ \A j \in 1..(FirstUnresolvable - 1) : Passes(rules[j])

(* validateOneByOne rejected at an unresolvable second rule, a later rule  *)
(* never loaded                                                            *)
C7_Witness ==
    /\ mode = "validateOneByOne"
    /\ ret.st = "rejected"
    /\ N = 3
    /\ loaded = <<1, 2>>
    /\ Unresolvable(rules[2])
    /\ called = <<1>>

(* C8: validateOneByOne starts its rules strictly in list order, starts    *)
(* rule i+1 only after the invocation of rule i has settled, and has at    *)
(* most one invocation outstanding at any moment.                          *)
C8_OneByOneSequential ==
    mode = "validateOneByOne" =>
        /\ called = UpTo(Len(called))
        /\ \A i \in 1..(Len(called) - 1) : Settled(inv[i])
        /\ Cardinality({i \in 1..N : inv[i].st = "pending"}) <= 1
        /\ order = UpTo(Len(order))

(* validateOneByOne has its third rule outstanding after two rules that    *)
(* returned promises settled                                               *)
C8_Witness ==
    /\ mode = "validateOneByOne"
    /\ called = <<1, 2, 3>>
    /\ inv[3].st = "pending"
    /\ requireFunction(rules[1]).how = "promise"
    /\ requireFunction(rules[2]).how = "promise"

(* C9 as stated: in validate every rule of the list is started exactly     *)
(* once, in list order, before the orchestrator waits.                     *)
C9_Original_EveryRuleStarted ==
    (mode = "validate" /\ pc \in {"all", "done"}) => called = UpTo(N)

(* C9 as amended: in validate the rules are started in list order, each at *)
(* most once, and none settles or is waited on while rules are still being *)
(* started; every rule is started when the orchestrator waits, and the     *)
(* only rules never started are those after a rule the loader gave no      *)
(* callable for.  A started invocation is never cancelled: it can still    *)
(* settle after validate has rejected or thrown.                           *)
C9_StartedInOrderNeverCancelled ==
    mode = "validate" =>
        /\ called = UpTo(Len(called))
        /\ pc = "map" =>
               /\ ret.st = "none"
               /\ \A i \in Range(called) :
                      requireFunction(rules[i]).how = "promise" => inv[i].st = "pending"
        /\ pc = "all" => Len(called) = N
        /\ pc = "done" =>
               Len(called) = IF \E i \in 1..N : Unresolvable(rules[i])
                             THEN FirstUnresolvable - 1
                             ELSE N
        /\ \A i \in Range(called) :
               (pc # "map" /\ inv[i].st = "pending" /\ ~NeverSettles(rules[i])) =>
                   ENABLED Settle(i)

(* validate has rejected while an invocation started before the failing    *)
(* rule is still outstanding and free to settle                            *)
C9_Witness ==
    /\ mode = "validate"
    /\ ret.st = "rejected"
    /\ called = UpTo(3)
    /\ \E i \in 1..N : inv[i].st = "pending" /\ ~NeverSettles(rules[i]) /\ ENABLED Settle(i)

----------------------------------------------------------------------------
(* Vocabulary for two calls on one validator *)

(* The second call has ended *)
SecondDone == calls = 2 /\ pc = "done"

(* b is the list a with at least one rule replaced by its twin *)
TwinSubstituted(a, b) ==
    /\ IsArray(a) /\ IsArray(b)
    /\ Len(a.a) = Len(b.a)
    /\ a # b
    /\ \A i \in 1..Len(a.a) : b.a[i].s \in {a.a[i].s, Twin(a.a[i].s)}

(* C11: a rule that returns a promise resolving to an outcome gives the    *)
(* same result as the rule that returns that outcome directly: a call on a *)
(* list and a call of the same method on the list with one rule replaced   *)
(* by its twin end alike, with equal ValidationResult contents.            *)
C11_PromiseOutcomeSameAsDirect ==
    (SecondDone /\ mode = first.mode /\ TwinSubstituted(first.arg, arg)) =>
        /\ ret.st = first.ret.st
        /\ ret.result = first.ret.result

(* Both calls of validate resolved to the same messages, the second on the *)
(* list with its first rule replaced by its twin                           *)
C11_Witness ==
    /\ SecondDone
    /\ mode = "validate"
    /\ first.mode = "validate"
    /\ TwinSubstituted(first.arg, arg)
    /\ N = 2
    /\ rules[1] # first.arg.a[1].s
    /\ requireFunction(rules[1]).how = "return"
    /\ YieldsError(rules[1])
    /\ ret.st = "resolved"
    /\ Len(ret.result.validationErrors) >= 2

C16_BareRuleIsOneElementList ==
    /\ (mode = "validate" /\ ~IsArray(arg)) =>
           /\ rules = <<arg.s>>
           /\ pc \in {"all", "done"} =>
                  /\ loaded = <<1>>
                  /\ called = IF Unresolvable(arg.s) THEN <<>> ELSE <<1>>
           /\ ret.st = "resolved" =>
                  ret.result.validationErrors = Messages(requireFunction(arg.s).val)
    /\ (/\ SecondDone
        /\ mode = "validate"
        /\ first.mode = "validate"
        /\ \/ ~IsArray(arg) /\ first.arg = Arr(<<arg>>)
           \/ ~IsArray(first.arg) /\ arg = Arr(<<first.arg>>)) =>
           ret = first.ret

(* validate of a bare rule that yields messages resolved as validate of    *)
(* the one-rule list had                                                   *)
C16_Witness ==
    /\ SecondDone
    /\ mode = "validate"
    /\ first.mode = "validate"
    /\ ~IsArray(arg)
    /\ first.arg = Arr(<<arg>>)
    /\ called = <<1>>
    /\ ret.st = "resolved"
    /\ Len(ret.result.validationErrors) = 2
    /\ ret = first.ret

(* The outcome is neither empty, nor a string, nor a list *)
Malformed(v) == v.t \in {"number", "object"}

(* The string a malformed outcome of the catalogue coerces to *)
CoercionText(v) == IF v.t = "number" THEN v.s ELSE "[object Object]"

(* Number of elements of q that are m *)
Occurrences(q, m) == Cardinality({k \in 1..Len(q) : q[k] = m})

(* C17 as stated: a malformed outcome is stored as one message that is the *)
(* string coercion of the value.                                           *)
C17_Original_StoredAsString ==
    (/\ pc = "done"
     /\ N = 1
     /\ Malformed(requireFunction(rules[1]).val)) =>
        ret = Resolved(ValidationResult(<<Str(CoercionText(requireFunction(rules[1]).val))>>))

(* C17 as amended: a malformed outcome does not make the call fail and is  *)
(* stored as exactly one message, which is the value itself: nothing is    *)
(* coerced to a string when the message is stored.                         *)
C17_MalformedStoredAsIs ==
    \A i \in 1..N :
        LET v == requireFunction(rules[i]).val IN
        (/\ Malformed(v)
         /\ \A j \in 1..N : Successful(rules[j])) =>
            /\ ret.st \notin {"rejected", "thrown"}
            /\ (ret.st = "resolved" /\ mode = "validate") =>
                   /\ Occurrences(ret.result.validationErrors, v) =
                          Cardinality({j \in 1..N : requireFunction(rules[j]).val = v})
                   /\ Occurrences(ret.result.validationErrors, Str(CoercionText(v))) = 0
            /\ (ret.st = "resolved" /\ mode = "validateOneByOne"
                    /\ \A j \in 1..(i - 1) : Passes(rules[j])) =>
                   ret.result.validationErrors = <<v>>

(* validate resolved with the number a rule returned as its second message *)
C17_Witness ==
    /\ mode = "validate"
    /\ ret.st = "resolved"
    /\ N = 2
    /\ requireFunction(rules[2]).val = Num("42")
    /\ Len(ret.result.validationErrors) = 2
    /\ ret.result.validationErrors[2] = Num("42")

(* C18: over a list of exactly one rule that settles successfully,         *)
(* validate and validateOneByOne resolve to the same message sequence,     *)
(* whatever the outcome.                                                   *)
C18_SingleRuleSameInBothModes ==
    (/\ SecondDone
     /\ mode # first.mode
     /\ arg = first.arg
     /\ IsArray(arg)
     /\ N = 1
     /\ Successful(rules[1])) =>
        /\ ret.st = "resolved"
        /\ first.ret.st = "resolved"
        /\ ret.result.validationErrors = first.ret.result.validationErrors

(* C12: validate([]) and validateOneByOne([]) load no rule, call no rule,  *)
(* never fail, and end resolved to a ValidationResult without errors and   *)
(* with an empty message list.                                             *)
C12_EmptyListEmptyResult ==
    (IsArray(arg) /\ arg.a = <<>>) =>
        /\ loaded = <<>>
        /\ called = <<>>
        /\ ret.st \in {"none", "pending", "resolved"}
        /\ pc = "done" =>
               /\ ret.st = "resolved"
               /\ ~hasErrors(ret.result)
               /\ getErrors(ret.result).errors = <<>>

(* validate([]) has resolved *)
C12_Witness ==
    /\ arg = Arr(<<>>)
    /\ mode = "validate"
    /\ pc = "done"
    /\ ret.st = "resolved"

(* C13: in both modes every rule outcome is aggregated by one policy: a    *)
(* list appends each of its elements unchanged and in order, a single      *)
(* non-empty message is appended as one message, an empty outcome appends  *)
(* nothing.                                                                *)
C13_FlatteningPolicyInBothModes ==
    (ret.st = "resolved" /\ \A i \in Range(called) : Successful(rules[i])) =>
        IF mode = "validate"
        THEN ret.result.validationErrors = ConcatInListOrder(rules)
        ELSE ret.result.validationErrors =
                 IF hasErrors(ret.result)
                 THEN Messages(requireFunction(rules[Len(called)]).val)
                 ELSE <<>>

RECURSIVE Lines(_)
(* The messages, each on its own line: built from the last one backwards *)
Lines(q) ==
    IF q = <<>> THEN ""
    ELSE IF Len(q) = 1 THEN q[1].s
    ELSE Lines(SubSeq(q, 1, Len(q) - 1)) \o "\n" \o q[Len(q)].s

(* C15: of the ValidationResult of a call, hasErrors() is true exactly     *)
(* when there is a message, getErrors().errors is the message sequence,    *)
(* and getErrorsAsString() is the messages joined by a newline, in order.  *)
C15_ValidationResultAccessors ==
    /\ hasErrors(ret.result) <=> ret.result.validationErrors # <<>>
    /\ getErrors(ret.result) = [errors |-> ret.result.validationErrors]
    /\ getErrorsAsString(ret.result) = Lines(ret.result.validationErrors)
    /\ (ret.st = "resolved" /\ mode = "validate" /\ rules = <<"rf02", "rf03">>) =>
           getErrorsAsString(ret.result) = "A\nB\nC"

(* A ValidationResult with three messages or more *)
C15_Witness ==
    /\ ret.st = "resolved"
    /\ hasErrors(ret.result)
    /\ Len(getErrors(ret.result).errors) >= 3
    /\ getErrorsAsString(ret.result) # ""

----------------------------------------------------------------------------
(* createEventInfo on its own: an event and an environmentData are passed, *)
(* the event info comes back.                                              *)

Events ==
    {Event(environment, development, headers) :
        environment \in {Undefined, Str(""), Str("development"), Str("production"),
                         Str("homologx"), Str("staging")},
        development \in {Undefined, Bool(TRUE), Bool(FALSE)},
        headers \in {Headers(FALSE, Undefined), Headers(TRUE, Undefined),
                     Headers(TRUE, Str("")), Headers(TRUE, Str("Bearer hdr"))}}

EnvironmentDatas ==
    {NoEnvironmentData,
     EnvironmentData(TRUE, Str("https://own"), Undefined, Undefined),
     EnvironmentData(TRUE, Str("https://own"), Str(""), Undefined),
     EnvironmentData(TRUE, Str("https://own"), Str("Bearer dflt"), Undefined)}

InitEvent ==
    /\ arg = Arr(<<>>)
    /\ CallStart
    /\ calls = 1
    /\ first = NoCall
    /\ evIn \in [event : Events, environmentData : EnvironmentDatas]
    /\ evOut = NoEventOut
    /\ req = NoRequest
    /\ sent = NothingSent

CreateEventInfo ==
    /\ evOut.st = "none"
    /\ evOut' = [st |-> "returned", info |-> createEventInfo(evIn.event, evIn.environmentData)]
    /\ UNCHANGED <<rules, mode, pc, idx, inv, loaded, called, order, ret>>
    /\ UNCHANGED <<callVars, evIn, req, sent>>

NextEvent == CreateEventInfo

SpecEvent == InitEvent /\ [][NextEvent]_vars

(* The environment name an event resolves to *)
ResolvedName(e) ==
    IF e.environment \notin {Undefined, Str("")} THEN e.environment
    ELSE IF e.development = Bool(TRUE) THEN Str("development")
    ELSE Str("production")

(* The token of the request header, when there is one *)
HeaderToken(e) ==
    IF e.headers.defined /\ e.headers.token \notin {Undefined, Str("")}
    THEN <<e.headers.token>>
    ELSE <<>>

(* The default token of the environmentData passed, when there is one *)
DefaultToken(d) ==
    IF d.defined /\ d.defaultToken \notin {Undefined, Str("")}
    THEN <<d.defaultToken>>
    ELSE <<>>

(* C19: the event info has development true exactly when the resolved      *)
(* environment name is 'development', production its negation, and as      *)
(* platform token: in development the default token, else the built-in     *)
(* development bearer token, whatever the request header; otherwise the    *)
(* 'X-Senior-Token' header, else the default token, else ''.               *)
C19_EventInfoFlagsAndToken ==
    evOut.st = "returned" =>
        LET e == evIn.event
            info == evOut.info
            candidates ==
                IF info.development
                THEN DefaultToken(evIn.environmentData)
                         \o <<Str("Bearer 15c2a9eca2e0f3faac36de609c7d05ca")>>
                ELSE HeaderToken(e) \o DefaultToken(evIn.environmentData) \o <<Str("")>>
        IN  /\ info.environment = ResolvedName(e)
            /\ info.development <=> ResolvedName(e) = Str("development")
            /\ info.production <=> ~info.development
            /\ info.platformToken = candidates[1]
            /\ info.originalEvent = e

(* In development with a token in the request header and no default token, *)
(* the built-in bearer token was given                                     *)
C19_Witness ==
    /\ evOut.st = "returned"
    /\ evOut.info.development
    /\ evIn.event.environment = Undefined
    /\ evIn.event.headers.token = Str("Bearer hdr")
    /\ ~evIn.environmentData.defined
    /\ evOut.info.platformToken = Str("Bearer 15c2a9eca2e0f3faac36de609c7d05ca")

----------------------------------------------------------------------------
(* The AxiosWrapper on its own: one platform request is made with an       *)
(* event info, a uri, a body and a config.                                 *)

Configs ==
    {NoConfig}
    \cup {Config(TRUE, timeout, headers) :
            timeout \in {Undefined, Num("5")},
            headers \in {NoConfigHeaders}
                \cup {ConfigHeaders(TRUE, authorization, accept) :
                        authorization \in {Undefined, Str(""), Str("Bearer own")},
                        accept \in {Undefined, Str("json")}}}

EventInfos ==
    [platformUrl : {Undefined, Str("https://own")},
     platformToken : {Undefined, Str(""), Str("Bearer tok")}]

InitAxios ==
    /\ arg = Arr(<<>>)
    /\ CallStart
    /\ calls = 1
    /\ first = NoCall
    /\ evIn = NoEventIn
    /\ evOut = NoEventOut
    /\ req \in {Request(event, Str("/users"), Str("body"), config) :
                    event \in EventInfos, config \in Configs}
    /\ sent = NothingSent

(* The client's method is called with the url and the config of            *)
(* _configToken, and with the body when the method takes one               *)
PlatformRequest(method, data) ==
    /\ sent.st = "none"
    /\ sent' = Sent("sent", method, platformUrlOf(req.event, req.uri), data,
                    configToken(req.event, req.config))
    /\ UNCHANGED <<rules, mode, pc, idx, inv, loaded, called, order, ret>>
    /\ UNCHANGED <<callVars, evIn, evOut, req>>

platformGet == PlatformRequest("get", Undefined)

platformDelete == PlatformRequest("delete", Undefined)

platformHead == PlatformRequest("head", Undefined)

platformPost == PlatformRequest("post", req.data)

platformPut == PlatformRequest("put", req.data)

platformPatch == PlatformRequest("patch", req.data)

NextAxios ==
    \/ platformGet
    \/ platformDelete
    \/ platformHead
    \/ platformPost
    \/ platformPut
    \/ platformPatch

SpecAxios == InitAxios /\ [][NextAxios]_vars

(* The caller's Authorization header; Undefined when there is none *)
CallerAuthorization ==
    IF req.config.defined /\ req.config.headers.defined
    THEN req.config.headers.Authorization
    ELSE Undefined

(* Every key of the caller's config and headers but Authorization is as    *)
(* the caller gave it                                                      *)
OtherKeysUnchanged ==
    /\ sent.config.timeout = (IF req.config.defined THEN req.config.timeout ELSE Undefined)
    /\ sent.config.headers.Accept =
           (IF req.config.defined /\ req.config.headers.defined
            THEN req.config.headers.Accept
            ELSE Undefined)

(* C20 as stated: the config passed to the HTTP client carries the         *)
(* caller's Authorization header when the caller supplied a non-empty one, *)
(* event.platformToken when the caller supplied none and the token is      *)
(* non-empty, and no Authorization header otherwise; the other keys are    *)
(* unchanged.                                                              *)
C20_Original_AbsentOtherwise ==
    sent.st = "sent" =>
        /\ sent.config.headers.Authorization =
               (IF CallerAuthorization \notin {Undefined, Str("")}
                THEN CallerAuthorization
                ELSE IF CallerAuthorization = Undefined
                        /\ req.event.platformToken \notin {Undefined, Str("")}
                THEN req.event.platformToken
                ELSE Undefined)
        /\ OtherKeysUnchanged

(* C20 amended: the config passed to the HTTP client carries the caller's  *)
(* Authorization header when the caller supplied a non-empty one,          *)
(* event.platformToken when the caller supplied none or an empty one and   *)
(* the token is non-empty, and otherwise exactly what the caller supplied  *)
(* (no header, or the empty one); the other keys are unchanged.            *)
C20_AuthorizationFilledWhenEmpty ==
    sent.st = "sent" =>
        /\ sent.config.defined /\ sent.config.headers.defined
        /\ sent.config.headers.Authorization =
               (IF CallerAuthorization \notin {Undefined, Str("")}
                THEN CallerAuthorization
                ELSE IF req.event.platformToken \notin {Undefined, Str("")}
                THEN req.event.platformToken
                ELSE CallerAuthorization)
        /\ OtherKeysUnchanged

(* A request whose caller supplied a header of its own went out with it,   *)
(* although the event had a token                                          *)
C20_Witness ==
    /\ sent.st = "sent"
    /\ CallerAuthorization = Str("Bearer own")
    /\ req.event.platformToken = Str("Bearer tok")
    /\ sent.config.headers.Authorization = Str("Bearer own")
    /\ sent.method = "post"

====
